---- MODULE Spec2Model ----
(***************************************************************************)
(* rollstarts: zero-downtime rolling restarts.                             *)
(*                                                                         *)
(* The supervisor side is RollStartsManager (src/src/constants.js, lines   *)
(* 32-262); the worker side is the client module (src/unnamed/part_001).   *)
(* One action of the model is one run-to-completion handler of the Node    *)
(* event loop: a public call, a 'message' listener, an 'exit' listener, a  *)
(* timer callback.                                                         *)
(***************************************************************************)
EXTENDS Integers, Sequences, FiniteSets, TLC

(***************************************************************************)
(* Bounds of the model.                                                    *)
(***************************************************************************)
\* Number of child processes the supervisor may spawn in one run.
MaxSpawn == 3
\* The same, in the crash-loop scenario (no child ever reports ready).
MaxCrashSpawn == 5
\* Number of client calls (ready / restart / exit) made in one run.
MaxCalls == 3

(***************************************************************************)
(* JavaScript values.  A string is a sequence of chunks; the chunks used   *)
(* below form a prefix-free alphabet, so startsWith, replace and           *)
(* concatenation on chunk sequences agree with the character-level ones.   *)
(***************************************************************************)
Undefined == [t |-> "undefined"]
Null == 0
Str(s) == [t |-> "str", s |-> s]
Num(n) == [t |-> "num", n |-> n]
Bool(b) == [t |-> "bool", b |-> b]
Lit(c) == Str(<<c>>)

\* Digits the model converts between numbers and strings.
Digits == <<"0", "1", "2", "3">>
IsDigit(c) == \E i \in 1..Len(Digits) : Digits[i] = c
DigitOf(c) == (CHOOSE i \in 1..Len(Digits) : Digits[i] = c) - 1

\* String(v), as a template literal `${v}` computes it.
JsString(v) ==
    CASE v.t = "undefined" -> <<"undefined">>
      [] v.t = "str" -> v.s
      [] v.t = "num" -> <<Digits[v.n + 1]>>
      [] v.t = "bool" -> IF v.b THEN <<"true">> ELSE <<"false">>

\* Unary plus on a string: the number it spells, NaN otherwise ("" is 0).
IsNaNStr(s) == ~(Len(s) = 0 \/ (Len(s) = 1 /\ IsDigit(s[1])))
ToNumber(s) == IF Len(s) = 0 THEN 0 ELSE DigitOf(s[1])

\* Truthiness of a value (the operand of !, ||, if).
Truthy(v) ==
    CASE v.t = "undefined" -> FALSE
      [] v.t = "str" -> Len(v.s) > 0
      [] v.t = "num" -> v.n # 0
      [] v.t = "bool" -> v.b

\* String.prototype.startsWith(search): search is converted with String().
StartsWith(s, search) ==
    LET q == JsString(search)
    IN  Len(s) >= Len(q) /\ SubSeq(s, 1, Len(q)) = q

\* String.prototype.replace(pattern, ""): the pattern is converted with
\* String() and its first occurrence is removed.
ReplaceFirst(s, pattern) ==
    LET q == JsString(pattern)
        at == {i \in 1..(Len(s) - Len(q) + 1) : SubSeq(s, i, i + Len(q) - 1) = q}
    IN  IF at = {} THEN s
        ELSE LET i == CHOOSE j \in at : \A k \in at : j <= k
             IN  SubSeq(s, 1, i - 1) \o SubSeq(s, i + Len(q), Len(s))

(***************************************************************************)
(* constants.js                                                            *)
(***************************************************************************)
IPC_DEFAULT_TIMEOUT_MS == 5000

RS_CONSTANTS ==
    [IPC_TIMEOUT_MS |-> Lit("ROLLSTARTS_IPC_TIMEOUT_MS"),
     IS_READY_TO_SERVE |-> Lit("ROLLSTARTS_IS_READY_TO_SERVE"),
     SHOULD_BEGIN_TO_SERVE |-> Lit("ROLLSTARTS_SHOULD_BEGIN_TO_SERVE"),
     IS_ROLLSTARTS_INITIAL_PROCESS |-> Lit("ROLLSTARTS_IS_ROLLSTARTS_INITIAL_PROCESS"),
     IS_ROLLSTARTS_RECURRING_PROCESS |-> Lit("ROLLSTARTS_IS_ROLLSTARTS_RECURRING_PROCESS")]

\* Property access RS_CONSTANTS.<key>: undefined for a key the object lacks.
RS(key) == IF key \in DOMAIN RS_CONSTANTS THEN RS_CONSTANTS[key] ELSE Undefined

IS_READY_TO_SERVE == RS("IS_READY_TO_SERVE")
SHOULD_BEGIN_TO_SERVE == RS("SHOULD_BEGIN_TO_SERVE")
REQUEST_RESTART == RS("REQUEST_RESTART")
REQUEST_EXIT == RS("REQUEST_EXIT")
INITIAL_MARKER == RS("IS_ROLLSTARTS_INITIAL_PROCESS")
RECURRING_MARKER == RS("IS_ROLLSTARTS_RECURRING_PROCESS")

(***************************************************************************)
(* State.                                                                  *)
(***************************************************************************)
VARIABLES
    \* RollStartsManager (supervisor process)
    options,            \* the options object: recover, recover_attempts, watch,
                        \* and the role markers set in options.options.env
    active_process,     \* #active_process: a pid, or Null
    temporary_process,  \* #temporary_process: a pid, or Null
    restart_promise,    \* #restart_promise: the promise made for a pid, or Null
    recover_attempts,   \* #recover_attempts
    watcher,            \* #watcher is set
    promise,            \* state of the promise restart() made when it spawned pid
    nextPid,            \* pid the next child_process.spawn hands out
    masterExit,         \* Running, or the argument process.exit was called with
    \* child processes, as the operating system and the channel hold them
    spawnLimit,         \* number of children this run may spawn (a bound)
    launcher,           \* what child_process.spawn does when it is called next
    status,             \* "none", "alive", "dead" (exit event pending), "reaped";
                        \* "failing" ('error' event pending), "failed": never ran
    env,                \* role markers in the environment of the child
    signalled,          \* children on which kill() was called
    toMaster,           \* messages in flight, child -> supervisor
    toWorker,           \* messages in flight, supervisor -> child
    \* client module inside each child
    ready_promise,      \* "null", "pending", "resolved", "rejected"
    listener,           \* the 'message' listener of ready() is registered
    timeout,            \* the timer of ready() is armed
    calls,              \* client calls made so far, in all processes
    callLimit,          \* number of client calls this run may make (a bound)
    returned,           \* the latest client call: who made it, which, its result
    \* observation
    readySent,          \* ready-to-serve messages the child has sent
    readySeen,          \* ready-to-serve messages the supervisor has handled
    beginSent,          \* begin-serving messages the supervisor has sent
    recovers,           \* 'recover' notifications emitted so far
    lastRecover,        \* value of the latest 'recover' notification, or -1
    exitTrace,          \* what the handler that called process.exit did, in order
    destroyCalled,      \* the application has called destroy() on the manager
    handedOff           \* children terminated by the ready-to-serve of another child

mgrVars == <<options, active_process, temporary_process, restart_promise,
             recover_attempts, watcher, promise, nextPid, masterExit>>
osVars == <<spawnLimit, launcher, status, env, signalled, toMaster, toWorker>>
clientVars == <<ready_promise, listener, timeout, calls, callLimit, returned>>
obsVars == <<readySent, readySeen, beginSent, recovers, lastRecover, exitTrace,
             destroyCalled, handedOff>>
vars == <<mgrVars, osVars, clientVars, obsVars>>

Pids == 1..(IF MaxSpawn > MaxCrashSpawn THEN MaxSpawn ELSE MaxCrashSpawn)
\* The supervisor process, where it stands beside the children.
Supervisor == 0
Procs == Pids \cup {Supervisor}
Running == [t |-> "running"]
ExitCodes == {0, 1}

\* One observable effect of a handler: what, on which pid, with which value.
Fx(e, p, v) == [e |-> e, p |-> p, v |-> v]
Did(log, e) == \E i \in 1..Len(log) : log[i].e = e
Where(log, e) == {i \in 1..Len(log) : log[i].e = e}
Last(log, e) == log[CHOOSE i \in Where(log, e) : \A j \in Where(log, e) : j <= i]

(***************************************************************************)
(* The supervisor's handlers are functions on a snapshot of the state the  *)
(* supervisor can touch, with the log fx of what the handler did; an       *)
(* action commits the snapshot a handler returns.                          *)
(***************************************************************************)
Snapshot(first) ==
    [options |-> options,
     active_process |-> active_process,
     temporary_process |-> temporary_process,
     restart_promise |-> restart_promise,
     recover_attempts |-> recover_attempts,
     watcher |-> watcher,
     promise |-> promise,
     nextPid |-> nextPid,
     spawnLimit |-> spawnLimit,
     launcher |-> launcher,
     masterExit |-> masterExit,
     status |-> status,
     env |-> env,
     signalled |-> signalled,
     toWorker |-> toWorker,
     readySeen |-> readySeen,
     beginSent |-> beginSent,
     handedOff |-> handedOff,
     overflow |-> FALSE,
     fx |-> <<first>>]

Commit(s) ==
    /\ ~s.overflow
    /\ spawnLimit' = s.spawnLimit
    /\ launcher' = s.launcher
    /\ options' = s.options
    /\ active_process' = s.active_process
    /\ temporary_process' = s.temporary_process
    /\ restart_promise' = s.restart_promise
    /\ recover_attempts' = s.recover_attempts
    /\ watcher' = s.watcher
    /\ promise' = s.promise
    /\ nextPid' = s.nextPid
    /\ masterExit' = s.masterExit
    /\ status' = s.status
    /\ env' = s.env
    /\ signalled' = s.signalled
    /\ toWorker' = s.toWorker
    /\ readySeen' = s.readySeen
    /\ beginSent' = s.beginSent
    /\ recovers' = recovers + Cardinality(Where(s.fx, "recover"))
    /\ lastRecover' = IF Did(s.fx, "recover") THEN Last(s.fx, "recover").v.n
                      ELSE lastRecover
    /\ exitTrace' = IF Did(s.fx, "process.exit") THEN s.fx ELSE exitTrace
    /\ destroyCalled' = destroyCalled
    /\ handedOff' = s.handedOff

Emit(s, e, p, v) == [s EXCEPT !.fx = Append(@, Fx(e, p, v))]

(***************************************************************************)
(* RollStartsManager                                                       *)
(***************************************************************************)
DEFAULT_RECOVER_ATTEMPTS == 100

\* constructor: this.#recover_attempts = options.recover_attempts || 100
InitialAttempts(configured) ==
    IF Truthy(configured) THEN configured.n ELSE DEFAULT_RECOVER_ATTEMPTS

\* The role marker restart() puts in the environment of the child it spawns.
RoleMarker(s) ==
    IF s.active_process # Null THEN RECURRING_MARKER ELSE INITIAL_MARKER

\* The environment handed to the child, as the set of the role markers set
\* in it: { ...process.env, ...options.env } and the marker of the role.
Environment(s) == s.env[Supervisor] \cup s.options.env \cup {RoleMarker(s)}

\* child_process.spawn: a running child ("ok"), an exception thrown by the
\* call ("throws"), or a handle without a pid that reports 'error' on the
\* next tick and never 'exit' ("error": the command cannot be run).
Launchers == {"ok", "throws", "error"}

\* restart(): the pending promise if there is one, else spawn a child, make
\* it the temporary process and keep the promise made for it.  An
\* exception of spawn leaves the promise executor: the promise is rejected,
\* nothing else of the executor has run, and #restart_promise holds it.
restart(s) ==
    IF s.restart_promise # Null
    THEN Emit(s, "return", s.restart_promise, Undefined)
    ELSE IF s.nextPid > s.spawnLimit
    THEN [s EXCEPT !.overflow = TRUE]
    ELSE IF s.launcher = "throws"
    THEN LET n == s.nextPid
             t == [s EXCEPT !.nextPid = n + 1,
                            !.status[n] = "failed",
                            !.promise[n] = "rejected",
                            !.restart_promise = n]
         IN  Emit(Emit(t, "rejected", n, Undefined), "return", n, Undefined)
    ELSE IF s.launcher = "error"
    THEN LET n == s.nextPid
             t == [s EXCEPT !.nextPid = n + 1,
                            !.status[n] = "failing",
                            !.env[n] = Environment(s),
                            !.promise[n] = "pending",
                            !.temporary_process = n,
                            !.restart_promise = n]
         IN  Emit(t, "return", n, Undefined)
    ELSE LET n == s.nextPid
             t == [s EXCEPT !.nextPid = n + 1,
                            !.status[n] = "alive",
                            !.env[n] = Environment(s),
                            !.promise[n] = "pending",
                            !.temporary_process = n,
                            !.restart_promise = n]
         IN  Emit(Emit(t, "spawn", n, RoleMarker(s)), "return", n, Undefined)

\* watch(): start the file watcher unless options.watch turns it off.
ShouldWatch(s) ==
    IF s.options.watch # Undefined THEN Truthy(s.options.watch) ELSE TRUE

watch(s) ==
    IF ~ShouldWatch(s) \/ s.watcher THEN s
    ELSE Emit([s EXCEPT !.watcher = TRUE], "watch", Null, Undefined)

\* resolve() / reject() of the promise restart() made when it spawned p: a
\* promise settles once.  The constructor chained watch() on the first one.
Settle(s, p, how) ==
    IF s.promise[p] # "pending" THEN s
    ELSE LET t == Emit([s EXCEPT !.promise[p] = how], how, p, Undefined)
         IN  IF p = 1 /\ how = "resolved" THEN watch(t) ELSE t

\* child.kill(): the default termination signal.
Kill(s, q) ==
    Emit([s EXCEPT !.signalled = @ \cup {q}], "kill", q, Undefined)

\* child.send(message) inside try/catch: a closed channel is swallowed.
Send(s, q, message) ==
    LET t == IF s.status[q] = "alive"
             THEN [s EXCEPT !.toWorker[q] = Append(@, message)]
             ELSE s
    IN  Emit(t, "send", q, message)

\* A variant of OnReadyToServe: begin-serving goes to the process that is
\* active when the message arrives instead of to the sender.
OnReadyToServe_BeginToActive(s, p) ==
    LET q == IF s.active_process # Null THEN s.active_process ELSE p
        s1 == IF s.active_process # Null THEN Kill(s, s.active_process) ELSE s
        s2 == Emit([s1 EXCEPT !.active_process = p, !.readySeen[p] = @ + 1,
                               !.handedOff = IF s.active_process \notin {Null, p}
                                             THEN @ \cup {s.active_process} ELSE @],
                   "active", p, Undefined)
        s3 == IF s2.temporary_process # Null /\ s2.temporary_process = p
              THEN [s2 EXCEPT !.temporary_process = Null]
              ELSE s2
        s4 == [Send(s3, q, SHOULD_BEGIN_TO_SERVE) EXCEPT !.beginSent[q] = @ + 1]
    IN  IF s4.restart_promise # Null
        THEN Settle([s4 EXCEPT !.restart_promise = Null], p, "resolved")
        ELSE s4

\* case RS_CONSTANTS.IS_READY_TO_SERVE of the 'message' listener of child p.
OnReadyToServe(s, p) ==
    LET s1 == IF s.active_process # Null THEN Kill(s, s.active_process) ELSE s
        s2 == Emit([s1 EXCEPT !.active_process = p, !.readySeen[p] = @ + 1,
                               !.handedOff = IF s.active_process \notin {Null, p}
                                             THEN @ \cup {s.active_process} ELSE @],
                   "active", p, Undefined)
        s3 == IF s2.temporary_process # Null /\ s2.temporary_process = p
              THEN [s2 EXCEPT !.temporary_process = Null]
              ELSE s2
        s4 == [Send(s3, p, SHOULD_BEGIN_TO_SERVE) EXCEPT !.beginSent[p] = @ + 1]
    IN  IF s4.restart_promise # Null
        THEN Settle([s4 EXCEPT !.restart_promise = Null], p, "resolved")
        ELSE s4

\* The argument of process.exit: the text after the prefix, as a number when
\* it spells one, undefined when it is empty.
ExitSignal(message) ==
    LET stripped == ReplaceFirst(message.s, REQUEST_EXIT)
    IN  IF Len(stripped) > 0
        THEN (IF IsNaNStr(stripped) THEN Str(stripped) ELSE Num(ToNumber(stripped)))
        ELSE Undefined

\* default case of the 'message' listener: an exit request.
OnRequestExit(s, p, message) ==
    LET s1 == [s EXCEPT !.options.recover = Bool(FALSE)]
        s2 == Kill(Emit(s1, "recover_off", p, Undefined), p)
        sig == ExitSignal(message)
    IN  Emit([s2 EXCEPT !.masterExit = sig], "process.exit", Null, sig)

\* new_process.on('message'): switch (raw.toString()).
OnMessage(s, p, message) ==
    IF message = IS_READY_TO_SERVE THEN OnReadyToServe(s, p)
    ELSE IF message = REQUEST_RESTART THEN restart(s)
    ELSE IF StartsWith(message.s, REQUEST_EXIT) THEN OnRequestExit(s, p, message)
    ELSE s

\* A variant of LastActivePid: the temporary process comes first.
LastActivePid_TemporaryFirst(s) ==
    IF s.temporary_process # Null THEN s.temporary_process ELSE s.active_process

\* const last_active_pid = active_process?.pid || temporary_process?.pid
LastActivePid(s) ==
    IF s.active_process # Null THEN s.active_process ELSE s.temporary_process

ShouldRecover(s) ==
    IF s.options.recover # Undefined THEN Truthy(s.options.recover) ELSE TRUE

\* A variant of Recover: the notification is emitted only with a retry.
Recover_QuietWhenSpent(s, p, last_active_pid) ==
    IF ShouldRecover(s) /\ last_active_pid = p /\ s.recover_attempts > 0
    THEN LET t == restart([s EXCEPT !.recover_attempts = @ - 1])
         IN  Emit(t, "recover", Null, Num(t.recover_attempts))
    ELSE s

\* A variant of Recover: a retry is still issued with the budget at zero.
Recover_OffByOne(s, p, last_active_pid) ==
    IF ShouldRecover(s) /\ last_active_pid = p
    THEN LET t == IF s.recover_attempts >= 0
                  THEN restart([s EXCEPT !.recover_attempts = @ - 1])
                  ELSE s
         IN  Emit(t, "recover", Null, Num(t.recover_attempts))
    ELSE s

\* The recovery step at the end of the 'exit' listener.
Recover(s, p, last_active_pid) ==
    IF ShouldRecover(s) /\ last_active_pid = p
    THEN LET t == IF s.recover_attempts > 0
                  THEN restart([s EXCEPT !.recover_attempts = @ - 1])
                  ELSE s
         IN  Emit(t, "recover", Null, Num(t.recover_attempts))
    ELSE s

\* new_process.once('exit') of child p.
OnExit(s, p, code) ==
    LET last_active_pid == LastActivePid(s)
        s1 == IF s.active_process # Null /\ s.active_process = p
              THEN [s EXCEPT !.active_process = Null] ELSE s
        s2 == IF s1.temporary_process # Null /\ s1.temporary_process = p
              THEN [s1 EXCEPT !.temporary_process = Null] ELSE s1
        s3 == Emit(s2, "exit", p, Num(code))
        s4 == IF s3.restart_promise # Null
              THEN Settle([s3 EXCEPT !.restart_promise = Null], p, "rejected")
              ELSE s3
    IN  Recover(s4, p, last_active_pid)

\* A variant of in_flight: true while a process is active.
in_flight_WhenActive == active_process # Null

\* get in_flight(): return this.#temporary_process !== null.
in_flight == temporary_process # Null

\* get active(): return this.#active_process.
active == active_process

(***************************************************************************)
(* Client module, inside child p (src/unnamed/part_001).                   *)
(***************************************************************************)
\* master(): neither role marker is set in process.env.
master(p) == INITIAL_MARKER \notin env[p] /\ RECURRING_MARKER \notin env[p]

\* What a client call gave back to its caller: a promise that is already
\* resolved or rejected, the memoized ready_promise of the process, the
\* value of process.send ("sent"), or an exception ("throws").
Returned(p, op, result) == returned' = [by |-> p, op |-> op, result |-> result]

\* process.connected of a child: the supervisor still holds the channel.
Connected(p) == masterExit = Running

\* process.send(message): throws on a missing message, is lost on a closed
\* channel, else queues the message for the supervisor.
SendOutcome(p, message) ==
    IF message = Undefined THEN "throws"
    ELSE IF ~Connected(p) THEN "closed"
    ELSE "sent"

ProcessSend(p, message) ==
    /\ toMaster' = IF SendOutcome(p, message) = "sent"
                   THEN [toMaster EXCEPT ![p] = Append(@, message)]
                   ELSE toMaster
    /\ readySent' = IF SendOutcome(p, message) = "sent" /\ message = IS_READY_TO_SERVE
                    THEN [readySent EXCEPT ![p] = @ + 1]
                    ELSE readySent

\* The process is running application code: the supervisor until it exits,
\* a child while it lives.
Alive(p) == IF p = Supervisor THEN masterExit = Running ELSE status[p] = "alive"
CanCall(p) == Alive(p) /\ calls < callLimit
Called(p) == calls' = calls + 1 /\ callLimit' = callLimit

\* What no client call touches.
ClientFrame ==
    UNCHANGED <<mgrVars, spawnLimit, launcher, status, env, signalled, toWorker, readySeen, beginSent,
                recovers, lastRecover, exitTrace, destroyCalled, handedOff>>

\* A variant of ReadyInitial: the initial process waits for begin-serving
\* as a recurring one does.
ReadyInitial_Waits(p) ==
    /\ INITIAL_MARKER \in env[p]
    /\ ready_promise' = [ready_promise EXCEPT ![p] = IF @ = "null" THEN "pending" ELSE @]
    /\ timeout' = [timeout EXCEPT ![p] = TRUE]
    /\ listener' = [listener EXCEPT ![p] = TRUE]
    /\ ProcessSend(p, IS_READY_TO_SERVE)
    /\ Returned(p, "ready", "ready_promise")

\* ready() in the initial process: send ready-to-serve, resolve at once.
ReadyInitial(p) ==
    /\ INITIAL_MARKER \in env[p]
    /\ ProcessSend(p, IS_READY_TO_SERVE)
    /\ Returned(p, "ready", "resolved")
    /\ UNCHANGED <<ready_promise, listener, timeout>>

\* ready() in a recurring process without a channel: rejected.
ReadyDisconnected(p) ==
    /\ INITIAL_MARKER \notin env[p] /\ RECURRING_MARKER \in env[p]
    /\ ~Connected(p)
    /\ Returned(p, "ready", "rejected")
    /\ UNCHANGED <<ready_promise, listener, timeout, toMaster, readySent>>

\* A variant of ReadyAgain: every call sends ready-to-serve again.
ReadyAgain_Resends(p) ==
    /\ INITIAL_MARKER \notin env[p] /\ RECURRING_MARKER \in env[p]
    /\ Connected(p)
    /\ ready_promise[p] # "null"
    /\ ProcessSend(p, IS_READY_TO_SERVE)
    /\ Returned(p, "ready", "ready_promise")
    /\ UNCHANGED <<ready_promise, listener, timeout>>

\* ready() in a recurring process that already has a ready promise.
ReadyAgain(p) ==
    /\ INITIAL_MARKER \notin env[p] /\ RECURRING_MARKER \in env[p]
    /\ Connected(p)
    /\ ready_promise[p] # "null"
    /\ Returned(p, "ready", "ready_promise")
    /\ UNCHANGED <<ready_promise, listener, timeout, toMaster, readySent>>

\* ready() in a recurring process: arm the timer, register the listener,
\* send ready-to-serve, keep the promise.
ReadyRecurring(p) ==
    /\ INITIAL_MARKER \notin env[p] /\ RECURRING_MARKER \in env[p]
    /\ Connected(p)
    /\ ready_promise[p] = "null"
    /\ ready_promise' = [ready_promise EXCEPT ![p] = "pending"]
    /\ timeout' = [timeout EXCEPT ![p] = TRUE]
    /\ listener' = [listener EXCEPT ![p] = TRUE]
    /\ ProcessSend(p, IS_READY_TO_SERVE)
    /\ Returned(p, "ready", "ready_promise")

\* A variant of ReadyMaster: ready() outside a child resolves.
ReadyMaster_Resolves(p) ==
    /\ INITIAL_MARKER \notin env[p] /\ RECURRING_MARKER \notin env[p]
    /\ Returned(p, "ready", "resolved")
    /\ UNCHANGED <<ready_promise, listener, timeout, toMaster, readySent>>

\* ready() in a process with neither role marker: rejected.
ReadyMaster(p) ==
    /\ INITIAL_MARKER \notin env[p] /\ RECURRING_MARKER \notin env[p]
    /\ Returned(p, "ready", "rejected")
    /\ UNCHANGED <<ready_promise, listener, timeout, toMaster, readySent>>

Ready(p) ==
    /\ CanCall(p)
    /\ Called(p)
    /\ \/ ReadyInitial(p)
       \/ ReadyDisconnected(p)
       \/ ReadyAgain(p)
       \/ ReadyRecurring(p)
       \/ ReadyMaster(p)
    /\ ClientFrame

\* A variant of Timeout: the timer callback removes the listener and
\* forgets to reject.
Timeout_Silent(p) ==
    /\ status[p] = "alive"
    /\ timeout[p]
    /\ timeout' = [timeout EXCEPT ![p] = FALSE]
    /\ listener' = [listener EXCEPT ![p] = FALSE]
    /\ UNCHANGED <<ready_promise, toMaster, readySent, calls, callLimit, returned>>
    /\ ClientFrame

\* The timer of ready() fires: remove the listener, reject.
Timeout(p) ==
    /\ status[p] = "alive"
    /\ timeout[p]
    /\ timeout' = [timeout EXCEPT ![p] = FALSE]
    /\ listener' = [listener EXCEPT ![p] = FALSE]
    /\ ready_promise' = [ready_promise EXCEPT ![p] =
                            IF @ = "pending" THEN "rejected" ELSE @]
    /\ UNCHANGED <<toMaster, readySent, calls, callLimit, returned>>
    /\ ClientFrame

\* A variant of Deliver: the listener resolves and removes itself, and
\* leaves the timer armed.
Deliver_KeepsTimer(p) ==
    /\ status[p] = "alive"
    /\ toWorker[p] # <<>>
    /\ toWorker' = [toWorker EXCEPT ![p] = Tail(@)]
    /\ LET hit == listener[p] /\ Head(toWorker[p]) = SHOULD_BEGIN_TO_SERVE
       IN  /\ ready_promise' = [ready_promise EXCEPT ![p] =
                                   IF hit /\ @ = "pending" THEN "resolved" ELSE @]
           /\ listener' = [listener EXCEPT ![p] = IF hit THEN FALSE ELSE @]
    /\ UNCHANGED <<mgrVars, spawnLimit, launcher, status, env, signalled, toMaster, timeout, calls,
                   callLimit, returned, obsVars>>

\* A message of the supervisor reaches the child: the listener of ready(),
\* when registered, resolves on begin-serving, removes itself and clears
\* the timer.
Deliver(p) ==
    /\ status[p] = "alive"
    /\ toWorker[p] # <<>>
    /\ toWorker' = [toWorker EXCEPT ![p] = Tail(@)]
    /\ LET hit == listener[p] /\ Head(toWorker[p]) = SHOULD_BEGIN_TO_SERVE
       IN  /\ ready_promise' = [ready_promise EXCEPT ![p] =
                                   IF hit /\ @ = "pending" THEN "resolved" ELSE @]
           /\ listener' = [listener EXCEPT ![p] = IF hit THEN FALSE ELSE @]
           /\ timeout' = [timeout EXCEPT ![p] = IF hit THEN FALSE ELSE @]
    /\ UNCHANGED <<mgrVars, spawnLimit, launcher, status, env, signalled, toMaster, calls, callLimit, returned,
                    obsVars>>

\* restart() of the client: send the restart request; throws in a master.
RequestRestart(p) ==
    /\ CanCall(p)
    /\ Called(p)
    /\ IF ~master(p)
       THEN /\ ProcessSend(p, REQUEST_RESTART)
            /\ Returned(p, "restart",
                        IF SendOutcome(p, REQUEST_RESTART) = "throws" THEN "throws" ELSE "sent")
       ELSE /\ Returned(p, "restart", "throws")
            /\ UNCHANGED <<toMaster, readySent>>
    /\ UNCHANGED <<ready_promise, listener, timeout>>
    /\ ClientFrame

\* The message exit(code) sends: `${RS_CONSTANTS.REQUEST_EXIT}${code}`.
ExitMessage(code) == Str(JsString(REQUEST_EXIT) \o JsString(code))

\* Codes the application passes to exit().
ExitArgs == {Undefined, Num(1)}

\* exit(code) of the client: send the exit request; throws in a master.
RequestExit(p, code) ==
    /\ CanCall(p)
    /\ Called(p)
    /\ IF ~master(p)
       THEN /\ ProcessSend(p, ExitMessage(code))
            /\ Returned(p, "exit", "sent")
       ELSE /\ Returned(p, "exit", "throws")
            /\ UNCHANGED <<toMaster, readySent>>
    /\ UNCHANGED <<ready_promise, listener, timeout>>
    /\ ClientFrame

\* start(options) of the client in a process that is not a master: throws
\* (an async function: the promise it returns is rejected).  In a master it
\* constructs the manager: that is Init.
Start(p) ==
    /\ CanCall(p)
    /\ Called(p)
    /\ ~master(p)
    /\ Returned(p, "start", "rejected")
    /\ UNCHANGED <<ready_promise, listener, timeout, toMaster, readySent>>
    /\ ClientFrame

\* The child process ends (on its own, by a crash, or by a signal): its
\* memory, its timers and what the channel still held for it are gone.
WorkerDies(p) ==
    /\ status[p] = "alive"
    /\ status' = [status EXCEPT ![p] = "dead"]
    /\ toWorker' = [toWorker EXCEPT ![p] = <<>>]
    /\ ready_promise' = [ready_promise EXCEPT ![p] = "null"]
    /\ listener' = [listener EXCEPT ![p] = FALSE]
    /\ timeout' = [timeout EXCEPT ![p] = FALSE]
    /\ UNCHANGED <<mgrVars, spawnLimit, launcher, env, signalled, toMaster, calls, callLimit, returned, obsVars>>

(***************************************************************************)
(* Events of the supervisor.                                               *)
(***************************************************************************)
\* The embedding application calls manager.restart().
AppRestart ==
    /\ masterExit = Running
    /\ Commit(restart(Snapshot(Fx("restart()", Null, Lit("app")))))
    /\ UNCHANGED <<toMaster, clientVars, readySent>>

\* fs.watch reports a change of the root file: () => this.restart().
FileChange ==
    /\ masterExit = Running
    /\ watcher
    /\ Commit(restart(Snapshot(Fx("restart()", Null, Lit("watcher")))))
    /\ UNCHANGED <<toMaster, clientVars, readySent>>

\* The 'message' listener of child p runs on the oldest message in flight;
\* the listener is gone once the 'exit' listener has run.
Message(p) ==
    /\ masterExit = Running
    /\ status[p] \in {"alive", "dead"}
    /\ toMaster[p] # <<>>
    /\ toMaster' = [toMaster EXCEPT ![p] = Tail(@)]
    /\ Commit(OnMessage(Snapshot(Fx("message", p, Head(toMaster[p]))), p,
                        Head(toMaster[p])))
    /\ UNCHANGED <<clientVars, readySent>>

\* The 'error' listener of a handle that could not be run:
\* (error) => this.emit('error', error).
OnError(s, p) == Emit([s EXCEPT !.status[p] = "failed"], "error", p, Undefined)

ErrorEvent(p) ==
    /\ masterExit = Running
    /\ status[p] = "failing"
    /\ Commit(OnError(Snapshot(Fx("error event", p, Undefined)), p))
    /\ UNCHANGED <<toMaster, clientVars, readySent>>

\* The embedding application calls manager.destroy().  The class defines
\* restart, watch, in_flight and active and no destroy: the call finds no
\* function, throws a TypeError to the caller and touches nothing.
Destroy ==
    /\ masterExit = Running
    /\ destroyCalled' = TRUE
    /\ UNCHANGED <<mgrVars, osVars, clientVars, toMaster, readySent, readySeen, beginSent,
                   recovers, lastRecover, exitTrace, handedOff>>

\* The host changes under the supervisor: the command disappears or comes
\* back, the process table fills up or empties.
LauncherChanges(l) ==
    /\ masterExit = Running
    /\ l # launcher
    /\ launcher' = l
    /\ UNCHANGED <<mgrVars, spawnLimit, status, env, signalled, toMaster, toWorker,
                   clientVars, obsVars>>

\* The operating system and the observer forget a child whose 'exit'
\* listener has run: nothing can happen to it any more.
Reap(s, p) ==
    [s EXCEPT !.status[p] = "reaped",
              !.signalled = @ \ {p},
              !.handedOff = @ \ {p},
              !.readySeen[p] = 0,
              !.beginSent[p] = 0]

\* The 'exit' listener of child p runs; it removes the 'message' listeners.
ExitEvent(p, code) ==
    /\ masterExit = Running
    /\ status[p] = "dead"
    /\ toMaster' = [toMaster EXCEPT ![p] = <<>>]
    /\ Commit(Reap(OnExit(Snapshot(Fx("exit event", p, Num(code))), p, code), p))
    /\ readySent' = [readySent EXCEPT ![p] = 0]
    /\ UNCHANGED clientVars

(***************************************************************************)
(* The state after start(options) has constructed the manager: the         *)
(* constructor has stored the options and called restart() once.           *)
(***************************************************************************)
Opt(recover, attempts, w) ==
    [recover |-> recover, recover_attempts |-> attempts, watch |-> w, env |-> {}]

\* The same options with role markers set in the env of the spawn options.
OptEnv(o, e) == [o EXCEPT !.env = e]

Options ==
    {Opt(Undefined, Undefined, Undefined),
     Opt(Undefined, Num(1), Bool(FALSE)),
     Opt(Bool(FALSE), Undefined, Bool(FALSE))}

Constructed(o, limit, l) ==
    restart([options |-> o,
             spawnLimit |-> limit,
             launcher |-> l,
             active_process |-> Null,
             temporary_process |-> Null,
             restart_promise |-> Null,
             recover_attempts |-> InitialAttempts(o.recover_attempts),
             watcher |-> FALSE,
             promise |-> [p \in Pids |-> "none"],
             nextPid |-> 1,
             masterExit |-> Running,
             status |-> [p \in Pids |-> "none"],
             env |-> [p \in Procs |-> {}],
             signalled |-> {},
             toWorker |-> [p \in Pids |-> <<>>],
             readySeen |-> [p \in Pids |-> 0],
             beginSent |-> [p \in Pids |-> 0],
             overflow |-> FALSE,
             fx |-> <<Fx("constructor", Null, Undefined)>>])

InitWith(o, limit, climit, l) ==
    LET s == Constructed(o, limit, l)
    IN  /\ options = s.options
        /\ active_process = s.active_process
        /\ temporary_process = s.temporary_process
        /\ restart_promise = s.restart_promise
        /\ recover_attempts = s.recover_attempts
        /\ watcher = s.watcher
        /\ promise = s.promise
        /\ nextPid = s.nextPid
        /\ spawnLimit = s.spawnLimit
        /\ launcher = s.launcher
        /\ masterExit = s.masterExit
        /\ status = s.status
        /\ env = s.env
        /\ signalled = s.signalled
        /\ toWorker = s.toWorker
        /\ readySeen = s.readySeen
        /\ beginSent = s.beginSent
        /\ recovers = 0
        /\ lastRecover = -1
        /\ exitTrace = <<>>
        /\ destroyCalled = FALSE
        /\ handedOff = {}
        /\ toMaster = [p \in Pids |-> <<>>]
        /\ ready_promise = [p \in Pids |-> "null"]
        /\ listener = [p \in Pids |-> FALSE]
        /\ timeout = [p \in Pids |-> FALSE]
        /\ calls = 0
        /\ callLimit = climit
        /\ returned = [by |-> Supervisor, op |-> "start", result |-> "resolved"]
        /\ readySent = [p \in Pids |-> 0]

Init == \E o \in Options : InitWith(o, MaxSpawn, MaxCalls, "ok")

Next ==
    \/ AppRestart
    \/ FileChange
    \/ \E p \in Pids : Message(p)
    \/ \E p \in Pids, code \in ExitCodes : ExitEvent(p, code)
    \/ \E p \in Procs : Ready(p)
    \/ \E p \in Pids : Timeout(p)
    \/ \E p \in Pids : Deliver(p)
    \/ \E p \in Procs : RequestRestart(p)
    \/ \E p \in Procs, code \in ExitArgs : RequestExit(p, code)
    \/ \E p \in Procs : Start(p)
    \/ \E p \in Pids : WorkerDies(p)

Spec == Init /\ [][Next]_vars

(***************************************************************************)
(* The crash-loop scenario: a configured budget of CrashBudget, and every  *)
(* child exits before the supervisor has handled a message of it; the      *)
(* application itself calls restart() never.                               *)
(***************************************************************************)
CrashBudget == 3

InitCrashLoop ==
    InitWith(Opt(Undefined, Num(CrashBudget), Undefined), MaxCrashSpawn, MaxCalls, "ok")

NextCrashLoop ==
    \/ \E p \in Pids : WorkerDies(p)
    \/ \E p \in Pids, code \in ExitCodes : ExitEvent(p, code)
    \/ \E p \in Pids : Ready(p)
    \/ \E p \in Pids : RequestRestart(p)
    \/ \E p \in Pids, code \in ExitArgs : RequestExit(p, code)

SpecCrashLoop == InitCrashLoop /\ [][NextCrashLoop]_vars

(***************************************************************************)
(* The orphan scenario: recovery and the watcher are off, a child asks the *)
(* supervisor to exit and the children that live on keep calling ready().  *)
(***************************************************************************)
\* Number of client calls made in one run of the scenario.
MaxOrphanCalls == 4

InitOrphan == InitWith(Opt(Bool(FALSE), Undefined, Bool(FALSE)), MaxSpawn,
               MaxOrphanCalls, "ok")

NextOrphan ==
    \/ AppRestart
    \/ \E p \in Pids : Message(p)
    \/ \E p \in Pids : Ready(p)
    \/ \E p \in Pids : Timeout(p)
    \/ \E p \in Pids : Deliver(p)
    \/ \E p \in Pids, code \in ExitArgs : RequestExit(p, code)

SpecOrphan == InitOrphan /\ [][NextOrphan]_vars

(***************************************************************************)
(* The failing-launch scenario: child_process.spawn may fail, at the first *)
(* start and at every later one.                                           *)
(***************************************************************************)
InitLaunch ==
    \E o \in Options, l \in Launchers : InitWith(o, MaxSpawn, MaxCalls, l)

NextLaunch ==
    \/ AppRestart
    \/ FileChange
    \/ \E p \in Pids : Message(p)
    \/ \E p \in Pids, code \in ExitCodes : ExitEvent(p, code)
    \/ \E p \in Pids : ErrorEvent(p)
    \/ \E l \in Launchers : LauncherChanges(l)
    \/ \E p \in Pids : Ready(p)
    \/ \E p \in Pids : WorkerDies(p)

SpecLaunch == InitLaunch /\ [][NextLaunch]_vars

(***************************************************************************)
(* The shutdown scenario: the application calls destroy() at some point.   *)
(***************************************************************************)
NextDestroy ==
    \/ Destroy
    \/ AppRestart
    \/ FileChange
    \/ \E p \in Pids : Message(p)
    \/ \E p \in Pids, code \in ExitCodes : ExitEvent(p, code)
    \/ \E p \in Pids : Ready(p)
    \/ \E p \in Pids : RequestRestart(p)
    \/ \E p \in Pids : WorkerDies(p)

SpecDestroy == Init /\ [][NextDestroy]_vars

(***************************************************************************)
(* The passed-through environment scenario: the env of the spawn options   *)
(* sets any of the role markers; recovery and the watcher are off.         *)
(***************************************************************************)
InitEnv ==
    \E e \in SUBSET {INITIAL_MARKER, RECURRING_MARKER} :
        InitWith(OptEnv(Opt(Bool(FALSE), Undefined, Bool(FALSE)), e), MaxSpawn, MaxCalls, "ok")

NextEnv ==
    \/ AppRestart
    \/ \E p \in Pids : Message(p)
    \/ \E p \in Pids, code \in ExitCodes : ExitEvent(p, code)
    \/ \E p \in Pids : Ready(p)
    \/ \E p \in Pids : Timeout(p)
    \/ \E p \in Pids : Deliver(p)
    \/ \E p \in Pids : WorkerDies(p)

SpecEnv == InitEnv /\ [][NextEnv]_vars

(***************************************************************************)
(* The configured-budget scenario: options.recover_attempts is not        *)
(* configured, or is 0, 1 or 2; recovery and the watcher have their        *)
(* defaults.                                                               *)
(***************************************************************************)
BudgetArgs == {Undefined, Num(0), Num(1), Num(2)}

InitBudget ==
    \E a \in BudgetArgs :
        InitWith(Opt(Undefined, a, Undefined), MaxSpawn, MaxCalls, "ok")

SpecBudget == InitBudget /\ [][Next]_vars

(***************************************************************************)
(* Vocabulary of the properties.                                           *)
(***************************************************************************)
Spawned(p) == status[p] # "none"
\* Spawned, not yet reported ready-to-serve, not yet exited.
Starting(p) == status[p] = "alive" /\ readySeen[p] = 0
Pending(p) == promise[p] = "pending"
RecoveryEnabled == ShouldRecover([options |-> options])

\* The step is the 'exit' listener of child p.
ExitStep(p) == status[p] = "dead" /\ status'[p] = "reaped"
\* The step is the 'message' listener of child p on a ready-to-serve message.
ReadyStep(p) ==
    /\ masterExit = Running
    /\ status[p] \in {"alive", "dead"}
    /\ toMaster[p] # <<>>
    /\ Head(toMaster[p]) = IS_READY_TO_SERVE
    /\ toMaster' = [toMaster EXCEPT ![p] = Tail(@)]
    /\ readySeen'[p] = readySeen[p] + 1
\* The step is a restart() call of the application or of the file watcher
\* that spawned: a child appears and no listener of a child has run.
DirectSpawnStep ==
    /\ nextPid' = nextPid + 1
    /\ toMaster' = toMaster
    /\ \A p \in Pids : Spawned(p) => status'[p] = status[p]

(***************************************************************************)
(* C1.  While a restart transition is in flight (the promise restart()     *)
(* returned for it is not settled), a further restart() call of the        *)
(* application or of the file watcher spawns no child.  Stated of every    *)
(* step: a restart() call that spawns finds no promise pending.            *)
(***************************************************************************)
C1_RestartCoalesces ==
    [][DirectSpawnStep => \A p \in Pids : ~Pending(p)]_vars

(***************************************************************************)
(* C2.  In every reachable state at most one spawned child is starting:    *)
(* spawned, not yet reported ready-to-serve, not yet exited.               *)
(***************************************************************************)
C2_AtMostOneStarting ==
    Cardinality({p \in Pids : Starting(p)}) <= 1

(***************************************************************************)
(* C3.  When a child reports ready-to-serve while another child is active, *)
(* the old one is sent a termination signal and the new one becomes the    *)
(* active process; a child that was promoted and is no longer the active   *)
(* process is never the active process again.                              *)
(***************************************************************************)
C3_HandOff ==
    [][/\ \A p \in Pids :
            (ReadyStep(p) /\ active_process # Null /\ active_process # p)
                => (active_process \in signalled' /\ active_process' = p)
       /\ \A q \in Pids :
            (readySeen[q] >= 1 /\ active_process # q) => active_process' # q]_vars

(***************************************************************************)
(* C4 (as claimed).  When the active or the pending child exits while      *)
(* recovery is enabled and the budget is positive, exactly one child is    *)
(* spawned and the budget decreases by one, for the pending child also     *)
(* when an active child exists.                                            *)
(***************************************************************************)
C4_RecoverActiveOrPending ==
    [][\A p \in Pids :
          (/\ ExitStep(p)
           /\ (active_process = p \/ temporary_process = p)
           /\ RecoveryEnabled
           /\ recover_attempts > 0)
              => (nextPid' = nextPid + 1 /\ recover_attempts' = recover_attempts - 1)]_vars

(***************************************************************************)
(* C4 (amended).  When the active child, or the pending child while there  *)
(* is no active child, exits while recovery is enabled and the budget is   *)
(* positive, exactly one child is spawned and the budget decreases by one; *)
(* when the pending child exits while another child is active, no child is *)
(* spawned and the budget is unchanged.                                    *)
(***************************************************************************)
C4_RecoverLastActive ==
    [][\A p \in Pids :
          (ExitStep(p) /\ RecoveryEnabled /\ recover_attempts > 0)
              => /\ (active_process = p \/ (active_process = Null /\ temporary_process = p))
                        => (/\ nextPid' = nextPid + 1
                            /\ status'[nextPid] = "alive"
                            /\ recover_attempts' = recover_attempts - 1)
                 /\ (temporary_process = p /\ active_process # Null /\ active_process # p)
                        => (nextPid' = nextPid /\ recover_attempts' = recover_attempts)]_vars

\* A recovery has run: a child was reaped, the budget is one below the
\* configured one and the child spawned for it is there.
C4_Witness ==
    /\ recovers = 1
    /\ recover_attempts = InitialAttempts(options.recover_attempts) - 1
    /\ \E p \in Pids : status[p] = "reaped"
    /\ \E p \in Pids : status[p] = "alive" /\ temporary_process = p

(***************************************************************************)
(* C5 (as claimed).  When the active or the pending child exits while      *)
(* recovery is enabled and the budget is zero, no child is spawned, the    *)
(* budget stays zero, and a 'recover' notification carrying 0 is emitted.  *)
(***************************************************************************)
C5_ZeroBudgetActiveOrPending ==
    [][\A p \in Pids :
          (/\ ExitStep(p)
           /\ (active_process = p \/ temporary_process = p)
           /\ RecoveryEnabled
           /\ recover_attempts = 0)
              => (/\ nextPid' = nextPid
                  /\ recover_attempts' = 0
                  /\ recovers' = recovers + 1
                  /\ lastRecover' = 0)]_vars

(***************************************************************************)
(* C5 (amended).  When a child exits while recovery is enabled and the     *)
(* budget is zero, no child is spawned and the budget stays zero; a        *)
(* 'recover' notification carrying 0 is emitted when the child was the     *)
(* active one, or the pending one while there was no active one, and none  *)
(* is emitted when it was the pending one beside an active one.            *)
(***************************************************************************)
C5_ZeroBudgetLastActive ==
    [][\A p \in Pids :
          (ExitStep(p) /\ RecoveryEnabled /\ recover_attempts = 0)
              => /\ nextPid' = nextPid
                 /\ recover_attempts' = 0
                 /\ (active_process = p \/ (active_process = Null /\ temporary_process = p))
                        => (recovers' = recovers + 1 /\ lastRecover' = 0)
                 /\ (temporary_process = p /\ active_process # Null /\ active_process # p)
                        => recovers' = recovers]_vars

\* More notifications than the configured budget: the last one was emitted
\* with the budget at zero, and nothing was spawned for it.
C5_Witness ==
    /\ recovers > InitialAttempts(options.recover_attempts)
    /\ lastRecover = 0
    /\ recover_attempts = 0
    /\ temporary_process = Null

\* Every child that was spawned has exited and its exit was handled.
AllReaped == \A p \in Pids : Spawned(p) => status[p] = "reaped"

(***************************************************************************)
(* C6.  Crash loop with a budget of CrashBudget (3): after the first spawn *)
(* exactly CrashBudget automatic restarts occur, then no child is spawned  *)
(* any more, and the last 'recover' notification carries 0.                *)
(***************************************************************************)
C6_CrashLoop ==
    /\ nextPid - 1 <= CrashBudget + 1
    /\ recover_attempts = CrashBudget - (nextPid - 2)
    /\ AllReaped => /\ nextPid - 1 = CrashBudget + 1
                    /\ recovers = CrashBudget + 1
                    /\ lastRecover = 0

C6_Witness ==
    /\ AllReaped
    /\ nextPid - 1 = CrashBudget + 1
    /\ nextPid <= spawnLimit
    /\ lastRecover = 0

\* The code the child asked for: the argument of exit() that made the
\* message (none: undefined).
Requested(message) ==
    CHOOSE code \in ExitArgs : ExitMessage(code) = message

ExitOrder ==
    masterExit # Running =>
        /\ Len(exitTrace) = 4
        /\ exitTrace[1].e = "message"
        /\ exitTrace[2].e = "recover_off"
        /\ exitTrace[3].e = "kill" /\ exitTrace[3].p = exitTrace[1].p
        /\ exitTrace[4].e = "process.exit"
        /\ options.recover = Bool(FALSE)

ExitCodeAsRequested ==
    masterExit # Running => masterExit = Requested(exitTrace[1].v)

NoSpawnAfterExit == [][masterExit # Running => nextPid' = nextPid]_vars

(***************************************************************************)
(* C7.  An exit request of a child leads, in this order, to recovery being *)
(* disabled, a termination signal to the requesting child, and the         *)
(* supervisor exiting with the requested code; no child is spawned after.  *)
(***************************************************************************)
C7_ExitRequest == []ExitOrder /\ []ExitCodeAsRequested /\ NoSpawnAfterExit

\* Counts of the handshake messages of each child are ordered.
BeginFollowsReady ==
    \A p \in Pids :
        /\ beginSent[p] <= readySeen[p]
        /\ readySeen[p] <= readySent[p]
        /\ Len(toWorker[p]) <= beginSent[p]
        /\ toWorker[p] # <<>> => readySent[p] >= 1

(***************************************************************************)
(* C8.  The supervisor sends begin-serving to a child only in response to  *)
(* a ready-to-serve message of that same child: begin-serving messages     *)
(* sent to a child never outnumber the ready-to-serve messages handled     *)
(* from it, those never outnumber the ones it sent, no begin-serving is in *)
(* flight to a child that has sent none, and every step that sends one is  *)
(* the 'message' listener of that child on a ready-to-serve message.       *)
(***************************************************************************)
C8_BeginOnlyAfterReady ==
    /\ []BeginFollowsReady
    /\ [][\A p \in Pids : beginSent'[p] > beginSent[p] => ReadyStep(p)]_vars

\* A begin-serving message is in flight to a recurring child that asked.
C8_Witness ==
    \E p \in Pids :
        /\ RECURRING_MARKER \in env[p]
        /\ toWorker[p] = <<SHOULD_BEGIN_TO_SERVE>>
        /\ beginSent[p] = 1
        /\ readySent[p] = 1

(***************************************************************************)
(* C9.  A second ready-to-serve message of a child that was promoted       *)
(* already is a no-op for the supervisor: no termination signal is sent,   *)
(* the active and the temporary process are unchanged, and no restart in   *)
(* flight is settled or cleared.                                           *)
(***************************************************************************)
C9_DuplicateReadyNoOp ==
    [][\A p \in Pids :
          (ReadyStep(p) /\ readySeen[p] >= 1)
              => /\ signalled' = signalled
                 /\ active_process' = active_process
                 /\ temporary_process' = temporary_process
                 /\ restart_promise' = restart_promise
                 /\ promise' = promise]_vars

(***************************************************************************)
(* C10.  A child sends at most one ready-to-serve message in its lifetime, *)
(* however often ready() is called in it, in the initial and in the        *)
(* recurring role.                                                         *)
(***************************************************************************)
C10_OneReadyPerLifetime ==
    \A p \in Pids : readySent[p] <= 1

\* The step is a call of ready() in process p.
ReadyCall(p) ==
    calls' = calls + 1 /\ returned'.by = p /\ returned'.op = "ready"
\* The roles, as the client reads them from process.env.
InitialRole(p) == INITIAL_MARKER \in env[p]
RecurringRole(p) == INITIAL_MARKER \notin env[p] /\ RECURRING_MARKER \in env[p]
\* The step is the timer callback of ready() in child p.
TimerFires(p) ==
    /\ timeout[p] /\ ~timeout'[p]
    /\ status'[p] = "alive"
    /\ toWorker'[p] = toWorker[p]
\* The wait of child p has an outcome.
Settled(p) == ready_promise[p] \in {"resolved", "rejected"}

(***************************************************************************)
(* C11.  ready() in a child with the initial role sends ready-to-serve and *)
(* returns a promise that is resolved already: no begin-serving has to     *)
(* arrive, no timer and no listener are left behind.                       *)
(***************************************************************************)
C11_InitialReadyResolves ==
    [][\A p \in Pids :
          (ReadyCall(p) /\ InitialRole(p))
              => /\ returned'.result = "resolved"
                 /\ Connected(p) =>
                        toMaster'[p] = Append(toMaster[p], IS_READY_TO_SERVE)
                 /\ ~timeout'[p] /\ ~listener'[p]
                 /\ ready_promise'[p] = "null"]_vars

\* An initial child has its resolved result while the supervisor has not
\* even handled its ready-to-serve.
C11_Witness ==
    \E p \in Pids :
        /\ InitialRole(p)
        /\ status[p] = "alive"
        /\ returned = [by |-> p, op |-> "ready", result |-> "resolved"]
        /\ toMaster[p] = <<IS_READY_TO_SERVE>>
        /\ beginSent[p] = 0

(***************************************************************************)
(* C12.  In a child with the recurring role the wait is pending only while *)
(* its timer is armed; when the timer fires on a pending wait the wait is  *)
(* rejected in that step; and the wait is rejected by no other step.       *)
(***************************************************************************)
C12_TimeoutFailsWait ==
    /\ [](\A p \in Pids : ready_promise[p] = "pending" => timeout[p])
    /\ [][\A p \in Pids :
            /\ (TimerFires(p) /\ ready_promise[p] = "pending")
                    => ready_promise'[p] = "rejected"
            /\ (ready_promise[p] # "rejected" /\ ready_promise'[p] = "rejected")
                    => TimerFires(p)]_vars

\* A recurring child whose wait timed out while its ready-to-serve was
\* still unanswered.
C12_Witness ==
    \E p \in Pids :
        /\ RecurringRole(p)
        /\ status[p] = "alive"
        /\ ready_promise[p] = "rejected"
        /\ beginSent[p] = 0

(***************************************************************************)
(* C13.  A wait that has an outcome has neither a listener nor an armed    *)
(* timer, and keeps its outcome as long as the child lives: a              *)
(* begin-serving that arrives after the timeout does not change the        *)
(* rejected wait, and no timer is left to reject a resolved one.           *)
(***************************************************************************)
C13_OutcomeIsFinal ==
    /\ [](\A p \in Pids : Settled(p) => (~listener[p] /\ ~timeout[p]))
    /\ [][\A p \in Pids :
            (Settled(p) /\ status'[p] = "alive")
                => ready_promise'[p] = ready_promise[p]]_vars

\* begin-serving was sent to a live recurring child and has been
\* delivered, and the wait is rejected: it arrived after the timeout.
C13_Witness ==
    \E p \in Pids :
        /\ RecurringRole(p)
        /\ status[p] = "alive"
        /\ ready_promise[p] = "rejected"
        /\ beginSent[p] = 1
        /\ toWorker[p] = <<>>

(***************************************************************************)
(* C14 (as claimed).  In a recurring child every ready() call made while   *)
(* the wait is pending returns the same pending promise and sends nothing: *)
(* one ready-to-serve message is sent for all of them.                     *)
(***************************************************************************)
C14_PendingWaitShared ==
    /\ [](\A p \in Pids : ready_promise[p] = "pending" => readySent[p] = 1)
    /\ [][\A p \in Pids :
            (ReadyCall(p) /\ RecurringRole(p) /\ ready_promise[p] = "pending")
                => /\ returned'.result = "ready_promise"
                   /\ ready_promise'[p] = "pending"
                   /\ readySent'[p] = readySent[p]
                   /\ toMaster'[p] = toMaster[p]]_vars

(***************************************************************************)
(* C14 (amended).  In a recurring child every ready() call made while the  *)
(* wait is pending sends nothing, so that one ready-to-serve message is    *)
(* sent for all of them, and returns the same pending promise as long as   *)
(* the channel to the supervisor is connected; once it is disconnected the *)
(* call returns a new rejected promise and the wait stays pending.         *)
(***************************************************************************)
C14_PendingWaitSharedWhileConnected ==
    /\ [](\A p \in Pids : ready_promise[p] = "pending" => readySent[p] = 1)
    /\ [][\A p \in Pids :
            (ReadyCall(p) /\ RecurringRole(p) /\ ready_promise[p] = "pending")
                => /\ returned'.result = IF Connected(p) THEN "ready_promise"
                                         ELSE "rejected"
                   /\ ready_promise'[p] = "pending"
                   /\ readySent'[p] = readySent[p]
                   /\ toMaster'[p] = toMaster[p]]_vars

\* Three calls were made: ready() in the first child, handled, and two in
\* the second, recurring, child that left one message: the second of them
\* was a ready() call on the pending wait and returned the memoized promise.
C14_Witness ==
    /\ masterExit = Running
    /\ nextPid = 3
    /\ status[1] = "alive" /\ readySeen[1] = 1 /\ toMaster[1] = <<>>
    /\ RecurringRole(2)
    /\ ready_promise[2] = "pending"
    /\ calls = 3
    /\ readySent[2] = 1
    /\ toMaster[2] = <<IS_READY_TO_SERVE>>
    /\ returned = [by |-> 2, op |-> "ready", result |-> "ready_promise"]

(***************************************************************************)
(* C15.  When the child a restart in flight waits on exits before it has   *)
(* reported ready-to-serve, the promise restart() returned for it is       *)
(* rejected by its 'exit' listener and the restart is no longer in flight: *)
(* #restart_promise does not hold that promise any more.                   *)
(***************************************************************************)
C15_ExitRejectsRestart ==
    [][\A p \in Pids :
          (ExitStep(p) /\ Pending(p) /\ readySeen[p] = 0)
              => (promise'[p] = "rejected" /\ restart_promise' # p)]_vars

\* What a restart() call made in this state would do.
RestartNow == restart(Snapshot(Fx("restart()", Null, Lit("app"))))

(***************************************************************************)
(* C16.  When the spawn of a restart() fails, by an exception of           *)
(* child_process.spawn or by an 'error' event of a handle that never ran,  *)
(* the promise that restart() returned is rejected once the failure is     *)
(* known: when spawn has thrown, when the 'error' listener has run.        *)
(***************************************************************************)
C16_SpawnFailureRejects ==
    [][\A p \in Pids :
          (status[p] \in {"none", "failing"} /\ status'[p] = "failed")
              => promise'[p] = "rejected"]_vars

(***************************************************************************)
(* C17.  A failed spawn is fatal to its restart() call only: the           *)
(* supervisor does not keep the restart of a failed spawn as the one in    *)
(* flight, and a restart() call made after the failure spawns again.       *)
(***************************************************************************)
C17_FailedSpawnNotKept ==
    \A p \in Pids :
        (status[p] = "failed" /\ masterExit = Running /\ nextPid <= spawnLimit)
            => /\ restart_promise # p
               /\ RestartNow.nextPid = nextPid + 1

\* The children the supervisor tracks: the active and the temporary one.
Tracked == {p \in Pids : p = active_process \/ p = temporary_process}

(***************************************************************************)
(* C18.  destroy() sends a termination signal to every tracked child, the  *)
(* active and the temporary one, and from then on a restart() call spawns  *)
(* nothing and no step spawns a child, recovery and restart requests of    *)
(* children included.                                                      *)
(***************************************************************************)
C18_DestroyIsTerminal ==
    /\ [][(~destroyCalled /\ destroyCalled')
            => \A p \in Tracked : status[p] = "alive" => p \in signalled']_vars
    /\ [](destroyCalled /\ masterExit = Running /\ nextPid <= spawnLimit
            => RestartNow.nextPid = nextPid)
    /\ [][destroyCalled => nextPid' = nextPid]_vars

\* The step is a call of the client operation op in process p.
CallStep(p, op) ==
    calls' = calls + 1 /\ returned'.by = p /\ returned'.op = op

(***************************************************************************)
(* C19.  ready(), restart() and exit() of the client, called in the        *)
(* supervisor process, fail at once - ready() with a rejected promise, the *)
(* other two with an exception - and send no message; start(), called in a *)
(* child, fails and spawns nothing.                                        *)
(***************************************************************************)
C19_WrongProcessFails ==
    [][/\ CallStep(Supervisor, "ready") => returned'.result = "rejected"
       /\ CallStep(Supervisor, "restart") => returned'.result = "throws"
       /\ CallStep(Supervisor, "exit") => returned'.result = "throws"
       /\ (calls' = calls + 1 /\ returned'.by = Supervisor)
            => UNCHANGED <<mgrVars, osVars, obsVars>>
       /\ \A p \in Pids :
            CallStep(p, "start")
                => /\ returned'.result = "rejected"
                   /\ UNCHANGED <<mgrVars, osVars, obsVars>>]_vars

\* ready() was called in the supervisor and was rejected, a child is
\* running and no message is in flight.
C19_Witness ==
    /\ returned = [by |-> Supervisor, op |-> "ready", result |-> "rejected"]
    /\ calls >= 1
    /\ \E p \in Pids : status[p] = "alive"
    /\ \A p \in Pids : toMaster[p] = <<>> /\ toWorker[p] = <<>>

(***************************************************************************)
(* C20.  Every spawned child carries exactly one of the two role markers,  *)
(* the initial one exactly when there was no active process at the moment  *)
(* it was spawned, whatever the supervisor's environment and the env of    *)
(* the spawn options hold; the supervisor's own process carries neither.   *)
(***************************************************************************)
C20_ExactlyOneRoleMarker ==
    /\ [](\A p \in Pids :
            Spawned(p) => ((INITIAL_MARKER \in env[p]) # (RECURRING_MARKER \in env[p])))
    /\ [](master(Supervisor))
    /\ [][nextPid' = nextPid + 1
            => ((INITIAL_MARKER \in env'[nextPid]) <=> (active_process' = Null))]_vars

\* The supervisor takes message m of child p for a restart request: its
\* 'message' listener does what restart() does, and nothing else.
Recognised(p, m) ==
    LET s == Snapshot(Fx("message", p, m))
    IN  OnMessage(s, p, m) = restart(s)

(***************************************************************************)
(* C21.  restart() of the client, called in a child that is connected,     *)
(* puts one message in flight to the supervisor, and that message is one   *)
(* the supervisor answers by calling restart(): a child is spawned if no   *)
(* restart is in flight and none if one is.                                *)
(***************************************************************************)
C21_RestartRequestDelivered ==
    [][\A p \in Pids :
          (CallStep(p, "restart") /\ Connected(p))
              => /\ returned'.result = "sent"
                 /\ Len(toMaster'[p]) = Len(toMaster[p]) + 1
                 /\ Recognised(p, toMaster'[p][Len(toMaster'[p])])]_vars

\* The code the supervisor is to exit with for an exit request: the one
\* the child passed to exit(), 0 when it passed none.
ExpectedExit(message) ==
    IF Requested(message) = Undefined THEN Num(0) ELSE Requested(message)

(***************************************************************************)
(* C22.  Once the supervisor has exited on an exit request, the code it    *)
(* exited with is the code the child passed to exit(), and 0 when the      *)
(* child passed none.                                                      *)
(***************************************************************************)
C22_ExitCodePassedThrough ==
    masterExit # Running => masterExit = ExpectedExit(exitTrace[1].v)

\* The step resolves the wait of ready() in child p.
WaitResolves(p) == ready_promise[p] = "pending" /\ ready_promise'[p] = "resolved"
\* Child q was sent a termination signal and its process has not ended.
Retiring(q) == q \in signalled /\ status[q] = "alive"

(***************************************************************************)
(* C23.  When the wait of ready() resolves in a child with the recurring   *)
(* role, that child is the active process and no other child that was sent *)
(* a termination signal is still running: the process it replaced has      *)
(* exited.                                                                 *)
(***************************************************************************)
C23_ResolvedMeansReplaced ==
    [][\A p \in Pids :
          (WaitResolves(p) /\ RecurringRole(p))
              => /\ active_process = p
                 /\ \A q \in Pids \ {p} : ~Retiring(q)]_vars

\* The first child has neither had a ready-to-serve message handled nor had
\* its 'exit' listener run.
FirstWorkerStarting == status[1] \in {"alive", "dead"} /\ readySeen[1] = 0

(***************************************************************************)
(* C24.  From construction until the first child's ready-to-serve message  *)
(* or its exit is handled, the getter active gives no process and the      *)
(* getter in_flight gives true.                                            *)
(***************************************************************************)
C24_StartsInFlight == FirstWorkerStarting => (active = Null /\ in_flight)

C24_Witness ==
    /\ FirstWorkerStarting
    /\ status[1] = "dead"
    /\ readySent[1] = 1
    /\ calls >= 2
    /\ active = Null /\ in_flight

\* restart() would return the promise of the restart in flight and spawn
\* nothing: the guard at the top of restart().
WouldCoalesce == restart_promise # Null

(***************************************************************************)
(* C25.  Between handlers, the getter in_flight is true exactly when a     *)
(* restart promise is outstanding, that is, when restart() would coalesce  *)
(* rather than spawn.                                                      *)
(***************************************************************************)
C25_InFlightIffCoalescing == in_flight <=> WouldCoalesce

\* The 'exit' listener of child p has run.
Exited(p) == status[p] = "reaped"
\* Child q was made the active process and is not the active process now.
Retired(q) == readySeen[q] >= 1 /\ active_process # q
ExitedNotTracked == \A p \in Pids : Exited(p) => p \notin Tracked
NeverActiveAgain == [][\A q \in Pids : Retired(q) => active_process' # q]_vars

(***************************************************************************)
(* C26.  A child moves forward only: once its 'exit' listener has run it   *)
(* is neither the active nor the temporary process in any later state, and *)
(* a child that has stopped being the active process does not become the   *)
(* active process again.                                                   *)
(***************************************************************************)
C26_ForwardOnly == []ExitedNotTracked /\ NeverActiveAgain

\* The step is the ready-to-serve handler of child p, whose process has
\* ended already: the begin-serving send finds the channel closed.
BeginSendFails(p) == ReadyStep(p) /\ status[p] = "dead"
BeginFailurePromotes ==
    [][\A p \in Pids :
          BeginSendFails(p) => (masterExit' = Running /\ active_process' = p)]_vars
BeginFailureResolves ==
    [][\A p \in Pids :
          (BeginSendFails(p) /\ Pending(p)) => promise'[p] = "resolved"]_vars
ActiveExitRecovers ==
    [][\A p \in Pids :
          (ExitStep(p) /\ active_process = p)
              => /\ active_process' # p
                 /\ RecoveryEnabled
                        => /\ recovers' = recovers + 1
                           /\ recover_attempts > 0
                                  => /\ nextPid' = nextPid + 1
                                     /\ recover_attempts' = recover_attempts - 1
                 /\ ~RecoveryEnabled
                        => (recovers' = recovers /\ nextPid' = nextPid)]_vars

(***************************************************************************)
(* C27.  When the begin-serving send to a child that reported              *)
(* ready-to-serve fails because the child has ended, the supervisor goes   *)
(* on: the child becomes the active process, the promise of its restart is *)
(* resolved, and the 'exit' listener of the child later clears the active  *)
(* process and applies the recovery policy.                                *)
(***************************************************************************)
C27_BeginFailureSwallowed ==
    BeginFailurePromotes /\ BeginFailureResolves /\ ActiveExitRecovers

(***************************************************************************)
(* C28.  The 'exit' listener of a child other than the one the restart in  *)
(* flight is waiting on leaves that restart as it is: the outstanding      *)
(* promise is neither cleared nor settled, and restart() still coalesces.  *)
(***************************************************************************)
C28_OtherExitKeepsTransition ==
    [][\A p \in Pids :
          (ExitStep(p) /\ WouldCoalesce /\ restart_promise # p)
              => /\ restart_promise' = restart_promise
                 /\ promise'[restart_promise] = promise[restart_promise]]_vars

\* Child q was sent a termination signal by a hand-off: by the
\* ready-to-serve handler of another child.
RetiredByHandOff(q) == q \in handedOff

(***************************************************************************)
(* C29.  The 'exit' listener of a child that was retired by a hand-off     *)
(* leaves the recovery budget as it is, spawns no child and emits no       *)
(* 'recover' notification.                                                 *)
(***************************************************************************)
C29_RetiredExitNoRecovery ==
    [][\A q \in Pids :
          (ExitStep(q) /\ RetiredByHandOff(q))
              => /\ recover_attempts' = recover_attempts
                 /\ nextPid' = nextPid
                 /\ recovers' = recovers]_vars

\* The ready-to-serve handler of a child whose restart promise is pending
\* resolves that promise.
ReadyResolves ==
    [][\A p \in Pids : (ReadyStep(p) /\ Pending(p)) => promise'[p] = "resolved"]_vars
\* The 'exit' listener of a child whose restart promise is pending rejects
\* that promise; nothing can settle it afterwards.
ExitRejects ==
    [][\A p \in Pids : (ExitStep(p) /\ Pending(p)) => promise'[p] = "rejected"]_vars
ExitedIsSettled == \A p \in Pids : Exited(p) => ~Pending(p)

(***************************************************************************)
(* C30.  Every promise restart() returned is settled once the child        *)
(* spawned for it has reported ready-to-serve or has exited: resolved by   *)
(* the handler of its ready-to-serve, rejected by its 'exit' listener, so   *)
(* that no child whose 'exit' listener has run has a pending promise,      *)
(* whatever other children exit and whatever recovery spawns in between.   *)
(***************************************************************************)
C30_RestartSettles == ReadyResolves /\ ExitRejects /\ []ExitedIsSettled

\* The step sends child q a termination signal (its first).
KillStep(q) == q \notin signalled /\ q \in signalled'
\* The step is the supervisor's handler of an exit request of child q.
ExitRequestStep(q) ==
    /\ masterExit = Running /\ masterExit' # Running
    /\ exitTrace'[1].p = q

(***************************************************************************)
(* C31.  The supervisor sends a child a termination signal only in the     *)
(* ready-to-serve handler of a different child or in the handler of that   *)
(* child's own exit request: the ready-to-serve of a child never           *)
(* terminates that same child.                                             *)
(***************************************************************************)
C31_KillOnlyOnHandOffOrRequest ==
    [][\A q \in Pids :
          KillStep(q) => (q \in handedOff' \/ ExitRequestStep(q))]_vars

\* The step spawns child n with the initial role.
InitialSpawnStep(n) ==
    /\ status[n] = "none" /\ status'[n] = "alive"
    /\ INITIAL_MARKER \in env'[n]

(***************************************************************************)
(* C32.  When a child is spawned with the initial role, no other child of  *)
(* this supervisor is alive: there is no previous process to clean up.     *)
(***************************************************************************)
C32_InitialRoleOnlyWhenAlone ==
    [][\A n \in Pids :
          InitialSpawnStep(n) => \A q \in Pids \ {n} : status[q] # "alive"]_vars

\* The budget the options ask for: recover_attempts, 100 when it is absent.
ConfiguredBudget ==
    IF options.recover_attempts = Undefined
    THEN DEFAULT_RECOVER_ATTEMPTS
    ELSE options.recover_attempts.n
InitialBudgetAsConfigured == recovers = 0 => recover_attempts = ConfiguredBudget
ZeroBudgetNeverRestarts ==
    [][\A p \in Pids :
          (ExitStep(p) /\ options.recover_attempts = Num(0)) => nextPid' = nextPid]_vars

(***************************************************************************)
(* C33.  Until a recovery has run, the recovery budget is the configured   *)
(* recover_attempts, 0 included, and 100 when none is configured; with a   *)
(* configured budget of 0 the exit of a child spawns no child.             *)
(***************************************************************************)
C33_InitialBudgetAsConfigured ==
    []InitialBudgetAsConfigured /\ ZeroBudgetNeverRestarts

====
